---- MODULE Spec2Model ----
(***************************************************************************)
(* PyUMLS: the JSON result normaliser (pyumls/utils.py), the result record *)
(* classes (pyumls/base.py) and the request facade (pyumls/api.py).        *)
(*                                                                         *)
(* JSON values are tagged records:                                         *)
(*   [t |-> "str",  s |-> <<characters>>]   a Python str                   *)
(*   [t |-> "int",  n |-> 1]                a Python int                   *)
(*   [t |-> "none"]                         None                           *)
(*   [t |-> "list", l |-> <<values>>]       a Python list                  *)
(*   [t |-> "dict", d |-> <<[k, v], ...>>]  a Python dict, insertion order *)
(*   [t |-> "rec",  cls |-> c, f |-> <<[k, v], ...>>]  a NamedTuple        *)
(* Strings that are values are sequences of characters so that upper()     *)
(* and replace() are computed; dictionary keys, which the code only        *)
(* compares, are TLA+ strings.                                             *)
(***************************************************************************)
EXTENDS Integers, Sequences, FiniteSets, TLC

VARIABLES
    results,      \* normaliser: the object the caller passed, as it is now
    original,     \* normaliser: that object as it was before the call
    pc,           \* normaliser: "ready" before the call, "done" after it
    ret,          \* normaliser: outcome of the call
    env,          \* facade: current value of UMLS_API_KEY ("" when unset)
    default_key,  \* facade: default of api_key, bound when api.py is loaded
    client,       \* facade: the UMLS object the caller holds
    gets,         \* facade: number of HTTP GETs issued so far
    parses,       \* facade: number of normaliser invocations so far
    last          \* facade: the last call and what it did

vars == <<results, original, pc, ret, env, default_key, client, gets, parses, last>>
parseVars == <<results, original, pc, ret>>
facadeVars == <<env, default_key, client, gets, parses, last>>

-----------------------------------------------------------------------------
(* Values *)

StrV(s) == [t |-> "str", s |-> s]
IntV(n) == [t |-> "int", n |-> n]
NoneV == [t |-> "none"]
ListV(l) == [t |-> "list", l |-> l]
DictV(d) == [t |-> "dict", d |-> d]
RecV(c, f) == [t |-> "rec", cls |-> c, f |-> f]
KV(k, v) == [k |-> k, v |-> v]

\* The characters of the names the code spells out or the service may send.
Chars(n) ==
  CASE n = "NONE" -> <<"N","O","N","E">>
  [] n = "searchResults" -> <<"s","e","a","r","c","h","R","e","s","u","l","t","s">>
  [] n = "SemanticGroup" -> <<"S","e","m","a","n","t","i","c","G","r","o","u","p">>
  [] n = "SemanticTypeGroup" -> <<"S","e","m","a","n","t","i","c","T","y","p","e","G","r","o","u","p">>
  [] n = "SearchResult" -> <<"S","e","a","r","c","h","R","e","s","u","l","t">>
  [] n = "SourceAtomCluster" -> <<"S","o","u","r","c","e","A","t","o","m","C","l","u","s","t","e","r">>
  [] n = "Concept" -> <<"C","o","n","c","e","p","t">>
  [] n = "Atom" -> <<"A","t","o","m">>
  [] n = "Definition" -> <<"D","e","f","i","n","i","t","i","o","n">>
  [] n = "AtomClusterRelation" -> <<"A","t","o","m","C","l","u","s","t","e","r","R","e","l","a","t","i","o","n">>
  [] n = "SemanticType" -> <<"S","e","m","a","n","t","i","c","T","y","p","e">>
  [] n = "Attribute" -> <<"A","t","t","r","i","b","u","t","e">>
  [] n = "Relation" -> <<"R","e","l","a","t","i","o","n">>
  [] n = "PairwiseRelation" -> <<"P","a","i","r","w","i","s","e","R","e","l","a","t","i","o","n">>
  [] n = "Any" -> <<"A","n","y">>
  [] n = "Dict" -> <<"D","i","c","t">>
  [] n = "UMLSResult" -> <<"U","M","L","S","R","e","s","u","l","t">>
  [] n = "Sequence" -> <<"S","e","q","u","e","n","c","e">>
  [] n = "Optional" -> <<"O","p","t","i","o","n","a","l">>
  [] n = "__dir__" -> <<"_","_","d","i","r","_","_">>
  [] n = "__doc__" -> <<"_","_","d","o","c","_","_">>
  [] n = "bogusType" -> <<"b","o","g","u","s","T","y","p","e">>
  [] n = "none" -> <<"n","o","n","e">>
  [] n = "None" -> <<"N","o","n","e">>
  [] n = "nOnE" -> <<"n","O","n","E">>
  [] n = "NONE2" -> <<"N","O","N","E","2">>
  [] n = "RO" -> <<"R","O">>
  [] n = "" -> <<>>

S(n) == StrV(Chars(n))

LowerCase == <<"a","b","c","d","e","f","g","h","i","j","k","l","m",
               "n","o","p","q","r","s","t","u","v","w","x","y","z">>
UpperCase == <<"A","B","C","D","E","F","G","H","I","J","K","L","M",
               "N","O","P","Q","R","S","T","U","V","W","X","Y","Z">>

\* str.upper(), one character
UpperChar(c) ==
  IF \E i \in 1..Len(LowerCase) : LowerCase[i] = c
  THEN UpperCase[CHOOSE i \in 1..Len(LowerCase) : LowerCase[i] = c]
  ELSE c

\* str.upper()
upper(s) == [i \in 1..Len(s) |-> UpperChar(s[i])]

\* s starts with old at position i
MatchAt(s, i, old) ==
  /\ i + Len(old) - 1 <= Len(s)
  /\ \A j \in 1..Len(old) : s[i + j - 1] = old[j]

RECURSIVE ReplaceFrom(_, _, _, _)
ReplaceFrom(s, i, old, new) ==
  IF i > Len(s) THEN <<>>
  ELSE IF MatchAt(s, i, old) THEN new \o ReplaceFrom(s, i + Len(old), old, new)
  ELSE <<s[i]>> \o ReplaceFrom(s, i + 1, old, new)

\* str.replace(old, new) for a non-empty old: every occurrence, left to right
replace(s, old, new) == ReplaceFrom(s, 1, old, new)

-----------------------------------------------------------------------------
(* Dictionaries: sequences of key/value items in insertion order *)

Keys(d) == {d[i].k : i \in 1..Len(d)}
HasKey(d, k) == \E i \in 1..Len(d) : d[i].k = k
Get(d, k) == d[CHOOSE i \in 1..Len(d) : d[i].k = k].v
\* dict.get(k, default)
GetOr(d, k, default) == IF HasKey(d, k) THEN Get(d, k) ELSE default
\* the dict after dict.pop(k)
Without(d, k) == SelectSeq(d, LAMBDA it : it.k # k)

-----------------------------------------------------------------------------
(* pyumls/base.py: the result record classes *)

RecordClasses == {"SearchResult", "SourceAtomCluster", "Concept", "Atom",
                  "Definition", "AtomClusterRelation", "SemanticTypeGroup",
                  "SemanticType", "Attribute", "Relation", "PairwiseRelation"}

\* the declared fields of each class, in declaration order
Fields(c) ==
  CASE c = "SearchResult" -> <<"ui", "rootSource", "uri", "name">>
  [] c = "SourceAtomCluster" ->
       <<"ui", "suppressible", "obsolete", "rootSource", "atomCount",
         "cVMemberCount", "attributes", "atoms", "descendants", "ancestors",
         "parents", "children", "relations", "definitions", "concepts",
         "defaultPreferredAtom", "name">>
  [] c = "Concept" ->
       <<"ui", "suppressible", "dateAdded", "majorRevisionDate", "status",
         "semanticTypes", "atomCount", "attributeCount", "cvMemberCount",
         "atoms", "definitions", "relations", "defaultPreferredAtom",
         "relationCount", "name">>
  [] c = "Atom" ->
       <<"ui", "suppressible", "obsolete", "rootSource", "termType", "code",
         "concept", "sourceConcept", "sourceDescriptor", "attributes",
         "parents", "ancestors", "children", "descendants", "relations",
         "name", "language">>
  [] c = "Definition" -> <<"sourceOriginated", "rootSource", "value">>
  [] c = "AtomClusterRelation" ->
       <<"ui", "suppressible", "sourceUi", "obsolete", "sourceOriginated",
         "rootSource", "groupId", "attributeCount", "relatedFromId",
         "relatedFromIdName", "relationLabel", "additionalRelationLabel",
         "relatedId", "relatedIdName">>
  [] c = "SemanticTypeGroup" ->
       <<"abbreviation", "expandedForm", "semanticTypeCount">>
  [] c = "SemanticType" ->
       <<"abbreviation", "ui", "definition", "example", "nonHuman",
         "usageNote", "treeNumber", "semanticTypeGroup", "name", "relations",
         "inverseRelations", "inheritedRelations",
         "inverseInheritedRelations", "childCount">>
  [] c = "Attribute" -> <<"ui", "sourceUi", "rootSource", "name", "value">>
  [] c = "Relation" ->
       <<"relation", "type", "flag", "other", "inverseRelation">>
  [] c = "PairwiseRelation" -> <<"relation1", "relationType", "relation2">>

\* Relation declared without the default of inverseRelation
NoDefault(c) == {}

\* the fields that have a default value: Relation.inverseRelation = None
Defaulted(c) == IF c = "Relation" THEN {"inverseRelation"} ELSE {}

FieldSet(c) == {Fields(c)[i] : i \in 1..Len(Fields(c))}

\* cls(**d): a TypeError on an undeclared keyword or a missing required field
CanConstruct(c, d) ==
  /\ Keys(d) \subseteq FieldSet(c)
  /\ (FieldSet(c) \ Defaulted(c)) \subseteq Keys(d)

\* the record cls(**d) builds, fields in declaration order
NewRecord(c, d) ==
  RecV(c, [i \in 1..Len(Fields(c)) |->
             KV(Fields(c)[i], GetOr(d, Fields(c)[i], NoneV))])

-----------------------------------------------------------------------------
(* The names getattr(base, name) resolves (utils.py:50) *)

\* names base.py imports from typing; calling any of them is a TypeError
TypingNames == {"Any", "Dict", "UMLSResult", "Sequence", "Optional"}

\* attributes every module object has: __dir__ is callable without
\* arguments, __doc__ is a str and not callable
ModuleAttrs == {"__dir__", "__doc__"}

Namespace == RecordClasses \cup TypingNames \cup ModuleAttrs

DirNames == <<"Any", "Atom", "AtomClusterRelation", "Attribute", "Concept",
              "Definition", "Dict", "Optional", "PairwiseRelation",
              "Relation", "SearchResult", "SemanticType", "SemanticTypeGroup",
              "Sequence", "SourceAtomCluster", "UMLSResult">>

HasAttr(name) == \E n \in Namespace : Chars(n) = name
GetAttr(name) == CHOOSE n \in Namespace : Chars(n) = name

-----------------------------------------------------------------------------
(* pyumls/utils.py: parse_json_results *)

\* what a call leaves behind: the value returned or the exception raised,
\* and the argument object as the call left it (the code assigns into it)
Return(v, a) == [ok |-> TRUE, val |-> v, err |-> "", arg |-> a]
Raise(e, a) == [ok |-> FALSE, val |-> NoneV, err |-> e, arg |-> a]

\* the comparison without upper(): only the spelling "NONE"
IsNoneStrExact(v) == v.t = "str" /\ v.s = Chars("NONE")

\* isinstance(val, str) and val.upper() == "NONE"
IsNoneStr(v) == v.t = "str" /\ upper(v.s) = Chars("NONE")

\* the comparison against the class name instead of the discriminator
IsSemanticTypeGroup(v) ==
  v.t = "dict" /\ GetOr(v.d, "classType", S("")) = S("SemanticTypeGroup")

\* isinstance(val, dict) and val.get("classType", "") == "SemanticGroup"
IsSemanticGroup(v) ==
  v.t = "dict" /\ GetOr(v.d, "classType", S("")) = S("SemanticGroup")

\* isinstance(val, list) or a SemanticGroup dict: the values the loop recurses on
Recurses(v) == v.t = "list" \/ IsSemanticGroup(v)

\* cls(**d) for the attribute named n of the base module
CallAttr(n, d) ==
  IF n \in RecordClasses
  THEN IF CanConstruct(n, d) THEN Return(NewRecord(n, d), DictV(d))
       ELSE Raise("TypeError", DictV(d))
  ELSE IF n = "__dir__" /\ d = <<>>
  THEN Return(ListV([i \in 1..Len(DirNames) |-> S(DirNames[i])]), DictV(d))
  ELSE Raise("TypeError", DictV(d))

\* the elements taken last to first
SearchElemsReversed(v) ==
  CASE v.t = "list" -> [i \in 1..Len(v.l) |-> v.l[Len(v.l) + 1 - i]]
  [] v.t = "rec" -> [i \in 1..Len(v.f) |-> v.f[Len(v.f) + 1 - i].v]
  [] OTHER -> <<>>

\* what iterating results["results"] yields, when every element can be
\* passed as **result to SearchResult
SearchElems(v) ==
  CASE v.t = "list" -> v.l
  [] v.t = "rec" -> [i \in 1..Len(v.f) |-> v.f[i].v]
  [] OTHER -> <<>>

\* list(map(lambda result: base.SearchResult(**result), results["results"]))
\* succeeds: the value is iterable and every element is a dict with exactly
\* the keywords of SearchResult (an empty str or dict yields no element, a
\* non-empty one yields str elements)
SearchOK(v) ==
  /\ \/ v.t \in {"list", "rec"}
     \/ v.t = "str" /\ Len(v.s) = 0
     \/ v.t = "dict" /\ Len(v.d) = 0
  /\ \A i \in 1..Len(SearchElems(v)) :
        /\ SearchElems(v)[i].t = "dict"
        /\ CanConstruct("SearchResult", SearchElems(v)[i].d)

\* utils.py:45-48
SearchResults(d) ==
  IF ~HasKey(d, "results") THEN Raise("KeyError", DictV(d))
  ELSE LET v == Get(d, "results") IN
       IF SearchOK(v)
       THEN Return(ListV([i \in 1..Len(SearchElems(v)) |->
                            NewRecord("SearchResult", SearchElems(v)[i].d)]),
                   DictV(d))
       ELSE Raise("TypeError", DictV(d))

\* utils.py:50-54: pop the discriminator, rewrite it, look the class up in
\* the base module and construct it from the remaining items
ByClassType(d) ==
  LET ct == Get(d, "classType")
      rest == Without(d, "classType")
  IN IF ct.t # "str" THEN Raise("AttributeError", DictV(rest))
     ELSE LET name == replace(ct.s, Chars("SemanticGroup"),
                              Chars("SemanticTypeGroup"))
          IN IF ~HasAttr(name) THEN Raise("AttributeError", DictV(rest))
             ELSE CallAttr(GetAttr(name), rest)

\* utils.py:38-54: what the mapping becomes once its values are normalised
Dispatch(d) ==
  IF ~HasKey(d, "classType") /\ HasKey(d, "relation")
  THEN CallAttr("Relation", d)
  ELSE IF ~HasKey(d, "classType") /\ HasKey(d, "relation1")
  THEN CallAttr("PairwiseRelation", d)
  ELSE IF ~HasKey(d, "classType")
  THEN Return(DictV(d), DictV(d))
  ELSE IF Get(d, "classType") = S("searchResults")
  THEN SearchResults(d)
  ELSE ByClassType(d)

RECURSIVE parse_json_results(_), ParseList(_), ParseItems(_)

\* utils.py:26: the elements in order; the first failure ends the call, the
\* elements before it (and the failing one) are left as their calls left them
ParseList(l) ==
  IF l = <<>> THEN [ok |-> TRUE, vals |-> <<>>, err |-> "", args |-> <<>>]
  ELSE LET h == parse_json_results(Head(l)) IN
       IF ~h.ok
       THEN [ok |-> FALSE, vals |-> <<>>, err |-> h.err,
             args |-> <<h.arg>> \o Tail(l)]
       ELSE LET r == ParseList(Tail(l)) IN
            [ok |-> r.ok, vals |-> <<h.val>> \o r.vals, err |-> r.err,
             args |-> <<h.arg>> \o r.args]

\* utils.py:28-36: the loop over the items, assigning into the mapping
ParseItems(d) ==
  IF d = <<>> THEN [ok |-> TRUE, d |-> <<>>, err |-> ""]
  ELSE LET it == Head(d) IN
       IF IsNoneStr(it.v)
       THEN LET r == ParseItems(Tail(d)) IN
            [ok |-> r.ok, d |-> <<KV(it.k, NoneV)>> \o r.d, err |-> r.err]
       ELSE IF Recurses(it.v)
       THEN LET p == parse_json_results(it.v) IN
            IF ~p.ok
            THEN [ok |-> FALSE, d |-> <<KV(it.k, p.arg)>> \o Tail(d),
                  err |-> p.err]
            ELSE LET r == ParseItems(Tail(d)) IN
                 [ok |-> r.ok, d |-> <<KV(it.k, p.val)>> \o r.d,
                  err |-> r.err]
       ELSE LET r == ParseItems(Tail(d)) IN
            [ok |-> r.ok, d |-> <<it>> \o r.d, err |-> r.err]

\* utils.py:15-54
parse_json_results(v) ==
  IF v.t = "list"
  THEN LET r == ParseList(v.l) IN
       IF r.ok THEN Return(ListV(r.vals), ListV(r.args))
       ELSE Raise(r.err, ListV(r.args))
  ELSE IF v.t # "dict"
  THEN Raise("AttributeError", v)    \* no .items()
  ELSE LET r == ParseItems(v.d) IN
       IF r.ok THEN Dispatch(r.d) ELSE Raise(r.err, DictV(r.d))

-----------------------------------------------------------------------------
(* The payloads the normaliser is applied to *)

\* longest list in a payload
MaxLen == 2

\* primitive values: "none" in two spellings, two other strings, an int
Prims == {S("NONE"), S("nOnE"), S("RO"), S("NONE2"), IntV(1)}
\* the values of a search hit's fields
HitVals == {S("NONE"), S("RO")}

SeqsUpTo(X, n) == UNION {[1..m -> X] : m \in 0..n}

\* {"relation": a, "type": b, "flag": c, "other": d}, and the same with
\* an item more or an item less
RelationDicts ==
  {DictV(<<KV("relation", a), KV("type", b), KV("flag", c), KV("other", d)>>)
     : a \in {S("RO"), S("nOnE")}, b \in Prims, c \in Prims, d \in {S("RO"), S("NONE")}}
  \cup {DictV(<<KV("relation", S("RO")), KV("type", S("RO")),
               KV("flag", S("RO")), KV("other", S("RO")), KV(k, v)>>)
          : k \in {"inverseRelation", "relation1", "x"}, v \in Prims}
  \cup {DictV(<<KV("relation", S("RO")), KV("type", S("RO")),
               KV("flag", S("RO"))>>)}

PairwiseDicts ==
  {DictV(<<KV("relation1", a), KV("relationType", b), KV("relation2", S("RO"))>>)
     : a \in Prims, b \in Prims}
  \cup {DictV(<<KV("relation1", S("RO"))>>)}

\* one raw search hit
Hits ==
  {DictV(<<KV("ui", a), KV("rootSource", b), KV("uri", c), KV("name", d)>>)
     : a \in HitVals, b \in HitVals, c \in HitVals, d \in HitVals}

\* hits the service should not send: a missing or an additional field, a
\* discriminator of their own
OddHits ==
  {DictV(<<KV("ui", S("NONE")), KV("name", S("RO"))>>),
   DictV(<<KV("ui", S("RO")), KV("rootSource", S("RO")), KV("uri", S("RO")),
           KV("name", S("RO")), KV("x", S("RO"))>>),
   DictV(<<KV("classType", S("Definition")), KV("sourceOriginated", IntV(1)),
           KV("rootSource", S("RO")), KV("value", S("RO"))>>),
   S("RO")}

SemanticGroupDict(a, b) ==
  DictV(<<KV("classType", S("SemanticGroup")), KV("abbreviation", a),
          KV("expandedForm", b), KV("semanticTypeCount", IntV(1))>>)

\* values that are themselves structures
Nested ==
  {DictV(<<KV("c", S("NONE"))>>),
   DictV(<<KV("classType", S("Definition")), KV("value", S("RO"))>>),
   DictV(<<KV("g", SemanticGroupDict(S("RO"), S("RO")))>>),
   SemanticGroupDict(S("RO"), S("nOnE")),
   DictV(<<KV("classType", S("SemanticGroup"))>>),
   ListV(<<>>),
   ListV(<<DictV(<<KV("e", S("nOnE"))>>)>>),
   ListV(<<DictV(<<KV("relation", S("RO")), KV("type", S("RO")),
                   KV("flag", S("NONE")), KV("other", S("RO"))>>)>>),
   ListV(<<S("RO")>>)}

SearchDicts ==
  {DictV(<<KV("classType", S("searchResults")), KV("results", ListV(l))>>)
     : l \in SeqsUpTo(Hits, MaxLen)}
  \cup {DictV(<<KV("pageSize", IntV(1)), KV("results", ListV(<<h>>)),
               KV("classType", S("searchResults"))>>) : h \in Hits \cup OddHits}
  \cup {DictV(<<KV("classType", S("searchResults")), KV("results", v)>>)
          : v \in {S(""), S("RO"), S("NONE"), IntV(1), DictV(<<>>),
                   DictV(<<KV("ui", S("RO"))>>)}}
  \cup {DictV(<<KV("classType", S("searchResults")),
               KV("results", ListV(<<h>>)), KV("x", v)>>)
          : h \in {DictV(<<KV("ui", S("NONE")), KV("rootSource", S("RO")),
                           KV("uri", S("RO")), KV("name", S("RO"))>>)},
            v \in Nested}
  \cup {DictV(<<KV("classType", S("searchResults"))>>)}

\* mappings without discriminator, "relation" or "relation1"
PlainDicts ==
  {DictV(<<>>)}
  \cup {DictV(<<KV("a", v)>>) : v \in Prims \cup Nested}
  \cup {DictV(<<KV("a", v), KV("b", w)>>)
          : v \in Prims \cup Nested, w \in Prims \cup Nested}

\* discriminator values: record kinds, the two spellings of the semantic
\* group, unknown names, names the base module binds to something else, and
\* values that are no names at all
ClassTypes ==
  {S("Definition"), S("SemanticTypeGroup"), S("SemanticGroup"),
   S("SearchResult"), S("bogusType"), S("Any"), S("UMLSResult"),
   S("__dir__"), S("__doc__"), S("NONE"), S("RO"), S(""), IntV(1),
   StrV(<<"X">> \o Chars("SemanticGroup")),
   ListV(<<>>), SemanticGroupDict(S("RO"), S("RO"))}

ClassTypeDicts ==
  {DictV(<<KV("classType", c)>>) : c \in ClassTypes}
  \cup {DictV(<<KV("classType", c), KV("sourceOriginated", IntV(1)),
               KV("rootSource", a), KV("value", S("RO"))>>)
          : c \in ClassTypes, a \in Prims}
  \cup {DictV(<<KV("abbreviation", S("RO")), KV("expandedForm", a),
               KV("classType", c), KV("semanticTypeCount", IntV(1))>>)
          : c \in ClassTypes, a \in Prims}
  \cup {DictV(<<KV("a", S("NONE")), KV("x", v), KV("classType", c)>>)
          : c \in ClassTypes, v \in Nested}

\* a concept as the service sends it
ConceptDict(st, name) ==
  DictV(<<KV("classType", S("Concept")), KV("ui", S("RO")),
          KV("suppressible", IntV(1)), KV("dateAdded", S("RO")),
          KV("majorRevisionDate", S("RO")), KV("status", S("RO")),
          KV("semanticTypes", st), KV("atomCount", IntV(1)),
          KV("attributeCount", IntV(1)), KV("cvMemberCount", IntV(1)),
          KV("atoms", S("RO")), KV("definitions", S("NONE")),
          KV("relations", S("NONE")), KV("defaultPreferredAtom", S("RO")),
          KV("relationCount", IntV(1)), KV("name", name)>>)

ConceptDicts == {ConceptDict(st, n) : st \in Nested, n \in Prims}

\* the elements of the lists the service sends
Elems ==
  {DictV(<<KV("a", S("nOnE"))>>),
   DictV(<<KV("a", DictV(<<KV("c", S("NONE"))>>))>>),
   DictV(<<KV("relation", S("RO")), KV("type", S("NONE")),
           KV("flag", S("RO")), KV("other", S("RO"))>>),
   DictV(<<KV("classType", S("Definition")), KV("sourceOriginated", IntV(1)),
           KV("rootSource", S("NONE")), KV("value", S("RO"))>>),
   DictV(<<KV("z", S("NONE")), KV("classType", S("bogusType"))>>),
   ListV(<<DictV(<<KV("a", S("NONE"))>>)>>),
   S("RO")}

Lists == {ListV(l) : l \in SeqsUpTo(Elems, MaxLen)}

Payloads ==
  RelationDicts \cup PairwiseDicts \cup SearchDicts \cup PlainDicts
  \cup ClassTypeDicts \cup ConceptDicts \cup Lists \cup {S("RO"), IntV(1)}

-----------------------------------------------------------------------------
(* The normaliser called directly on a payload *)

NoCall == [ok |-> FALSE, val |-> NoneV, err |-> "not called"]

InitFacadeIdle ==
  /\ env = ""
  /\ default_key = ""
  /\ client = [built |-> FALSE, key |-> "", version |-> ""]
  /\ gets = 0
  /\ parses = 0
  /\ last = [n |-> 0, op |-> "none"]

InitParse ==
  /\ original \in Payloads
  /\ results = original
  /\ pc = "ready"
  /\ ret = NoCall
  /\ InitFacadeIdle

\* ret = parse_json_results(results)
Parse ==
  /\ pc = "ready"
  /\ LET r == parse_json_results(results) IN
       /\ ret' = [ok |-> r.ok, val |-> r.val, err |-> r.err]
       /\ results' = r.arg
  /\ pc' = "done"
  /\ UNCHANGED <<original, facadeVars>>

NextParse == Parse

SpecParse == InitParse /\ [][NextParse]_vars

-----------------------------------------------------------------------------
(* pyumls/api.py: the request facade *)

\* calls made on the facade in one behaviour
MaxCalls == 2

\* query parameter values: a str, an int, a bool, or (for a keyword
\* argument named params) a dict of query parameters
PS(x) == [s |-> x]
PN(x) == [n |-> x]
PB(x) == [b |-> x]
PM(x) == [m |-> x]

NoParams == [k \in {} |-> PS("")]
SabsOnly == [k \in {"sabs"} |-> PS("v1")]

\* the extra keyword arguments a caller supplies
Kwargs ==
  {NoParams,
   SabsOnly,
   [k \in {"pageSize"} |-> PS("v1")],
   [k \in {"sabs", "ttys"} |-> PS("v1")],
   [k \in {"params"} |-> PM(SabsOnly)],
   [k \in {"params"} |-> PS("v1")],
   [k \in {"params", "sabs"} |-> IF k = "params" THEN PM(SabsOnly) ELSE PS("v1")]}

\* API keys, "" being the empty string os.environ.get falls back to
ApiKeys == {"", "k1"}
Versions == {"current"}

\* identifiers, as characters: one that quote() leaves alone and one it
\* escapes
Identifiers == {<<"C", "1">>, <<"a", " ", "b">>}

RECURSIVE quote(_)
\* urllib.parse.quote(identifier): letters, digits and "_.-~/" are kept, a
\* space becomes %20
quote(id) ==
  IF id = <<>> THEN <<>>
  ELSE (IF Head(id) = " " THEN <<"%", "2", "0">> ELSE <<Head(id)>>)
       \o quote(Tail(id))

InputTypes == {"atom", "code", "sourceConcept", "sourceDescriptor",
               "sourceUi", "tty"}
SearchTypes == {"exact", "words", "leftTruncation", "rightTruncation",
                "normalizedString", "normalizedWords"}
ReturnIdTypes == {"aui", "concept", "code", "sourceConcept",
                  "sourceDescriptor", "sourceUi"}
ConceptReturnTypes == {"Concept", "Atom", "Definition", "Relation"}
SourceConceptReturnTypes == {"Concept", "Atom", "Parent", "Child",
                             "Ancestor", "Descendant", "Attribute"}

\* search() with every assertion but the one on search_type
SearchAssertsNoSearchType(a) ==
  /\ a.input_type \in InputTypes
  /\ a.return_id_type \in ReturnIdTypes
  /\ a.page_size > 0
  /\ a.page_number > 0

\* api.py:82-107: the assertions of search()
SearchAsserts(a) ==
  /\ a.input_type \in InputTypes
  /\ a.search_type \in SearchTypes
  /\ a.return_id_type \in ReturnIdTypes
  /\ a.page_size > 0
  /\ a.page_number > 0

\* api.py:110-118: the required parameters of search()
SearchParams(a) ==
  [k \in {"string", "inputType", "searchType", "partialSearch",
          "returnIdType", "pageSize", "pageNumber"} |->
     CASE k = "string" -> PS(a.query)
     [] k = "inputType" -> PS(a.input_type)
     [] k = "searchType" -> PS(a.search_type)
     [] k = "partialSearch" -> PB(a.partial_search)
     [] k = "returnIdType" -> PS(a.return_id_type)
     [] k = "pageSize" -> PN(a.page_size)
     [] k = "pageNumber" -> PN(a.page_number)]

\* dict.update: the items of new replace those of old
Update(old, new) == new @@ old

\* return_type.lower() + "s"
LowerPlural(rt) ==
  CASE rt = "Concept" -> "concepts"
  [] rt = "Atom" -> "atoms"
  [] rt = "Definition" -> "definitions"
  [] rt = "Relation" -> "relations"
  [] rt = "Parent" -> "parents"
  [] rt = "Ancestor" -> "ancestors"
  [] rt = "Descendant" -> "descendants"
  [] rt = "Attribute" -> "attributes"

\* api.py:133-134: the path segments of get_concept's endpoint
ConceptEndpoint(version, a) ==
  <<"content", version, "CUI", a.cui>>
  \o (IF a.return_type = "Concept" THEN <<>>
      ELSE <<LowerPlural(a.return_type)>>)

\* api.py:150-166
SourceConceptEndpoint(version, a) ==
  <<"content", version, "source", "SNOMEDCT_US", quote(a.identifier)>>
  \o (IF a.return_type = "Concept" THEN <<>>
      ELSE IF a.return_type = "Child" THEN <<"children">>
      ELSE <<LowerPlural(a.return_type)>>)

\* responses of the service: the status and the "result" of the JSON body
Statuses == {200, 404}
Bodies ==
  {DictV(<<KV("classType", S("searchResults")),
           KV("results", ListV(<<DictV(<<KV("ui", S("NONE")),
                                         KV("rootSource", S("RO")),
                                         KV("uri", S("RO")),
                                         KV("name", S("RO"))>>)>>))>>),
   ListV(<<DictV(<<KV("classType", S("Definition")),
                   KV("sourceOriginated", IntV(1)),
                   KV("rootSource", S("RO")), KV("value", S("RO"))>>)>>),
   DictV(<<KV("classType", S("bogusType"))>>)}

NotSent == [sent |-> FALSE, endpoint |-> <<>>, params |-> NoParams,
            status |-> 0, parsed |-> NoneV]

\* the record of a call that raised before any request
Failed(n, op, a, kw, e) ==
  [n |-> n, op |-> op, args |-> a, kwargs |-> kw, err |-> e,
   val |-> NoneV, req |-> NotSent]

\* api.py:49-56: _get_request(endpoint, params) with the response the
\* service gives; one GET, then raise_for_status, then the normaliser on
\* the "result" of the body
get_request(op, a, kw, endpoint, params, status, body) ==
  LET sent == [sent |-> TRUE, endpoint |-> endpoint,
               params |-> Update(params, [k \in {"apiKey"} |-> PS(client.key)]),
               status |-> status,
               parsed |-> IF status = 200 THEN body ELSE NoneV]
  IN /\ gets' = gets + 1
     /\ IF status # 200
        THEN /\ parses' = parses
             /\ last' = [n |-> last.n + 1, op |-> op, args |-> a,
                         kwargs |-> kw, err |-> "HTTPError", val |-> NoneV,
                         req |-> sent]
        ELSE /\ parses' = parses + 1
             /\ LET r == parse_json_results(body) IN
                  last' = [n |-> last.n + 1, op |-> op, args |-> a,
                           kwargs |-> kw, err |-> r.err, val |-> r.val,
                           req |-> sent]

\* the call raised before any request was made
raises(op, a, kw, e) ==
  /\ last' = Failed(last.n + 1, op, a, kw, e)
  /\ UNCHANGED <<gets, parses>>

\* self._get_request(endpoint, params): the keyword arguments travel as
\* the params dict
PassedAsDict(op, a, kw, endpoint, params) ==
  \E status \in Statuses, body \in Bodies :
     get_request(op, a, kw, endpoint, params, status, body)

\* self._get_request(endpoint, **kwargs): the keyword arguments are bound
\* to the parameters of _get_request, which has none but params; a params
\* that is not a dict fails on params["apiKey"] = ...
PassedAsKeywords(op, a, kw, endpoint) ==
  IF ~(DOMAIN kw \subseteq {"params"}) THEN raises(op, a, kw, "TypeError")
  ELSE IF kw = NoParams THEN PassedAsDict(op, a, kw, endpoint, NoParams)
  ELSE IF "m" \in DOMAIN kw["params"]
  THEN PassedAsDict(op, a, kw, endpoint, kw["params"].m)
  ELSE raises(op, a, kw, "TypeError")

CanCall == client.built /\ last.n < MaxCalls

\* os.environ["UMLS_API_KEY"] changes (or the variable is removed)
SetEnv ==
  /\ \E k \in ApiKeys : k # env /\ env' = k
  /\ UNCHANGED <<default_key, client, gets, parses, last, parseVars>>

\* api.py:22-36: UMLS(api_key=key), or UMLS() when no key is given: the
\* default of api_key is the value os.environ.get returned when the class
\* body was executed
UMLS ==
  /\ last.n < MaxCalls
  /\ \E given \in BOOLEAN, key \in ApiKeys, version \in Versions :
       LET a == [given |-> given, key |-> IF given THEN key ELSE "",
                 version |-> version, env |-> env]
           api_key == IF given THEN key ELSE default_key
       IN IF api_key = ""
          THEN /\ last' = Failed(last.n + 1, "UMLS", a, NoParams, "AssertionError")
               /\ UNCHANGED client
          ELSE /\ last' = Failed(last.n + 1, "UMLS", a, NoParams, "")
               /\ client' = [built |-> TRUE, key |-> api_key,
                             version |-> version]
  /\ UNCHANGED <<env, default_key, gets, parses, parseVars>>

\* api.py:58-120
search ==
  /\ CanCall
  /\ \E input_type \in {"atom", "bogus"},
        search_type \in {"words", "exact", "invalidOption"},
        return_id_type \in {"concept", "bogus"},
        page_size \in {32, 0}, kw \in Kwargs :
       LET a == [query |-> "q", input_type |-> input_type,
                 search_type |-> search_type, partial_search |-> FALSE,
                 return_id_type |-> return_id_type, page_size |-> page_size,
                 page_number |-> 1]
       IN IF ~SearchAsserts(a) THEN raises("search", a, kw, "AssertionError")
          ELSE PassedAsDict("search", a, kw, <<"search", client.version>>,
                            Update(kw, SearchParams(a)))
  /\ UNCHANGED <<env, default_key, client, parseVars>>

\* api.py:122-135
get_concept ==
  /\ CanCall
  /\ \E return_type \in {"Concept", "Atom", "bogus"}, kw \in Kwargs :
       LET a == [cui |-> "C1", return_type |-> return_type] IN
       IF return_type \notin ConceptReturnTypes
       THEN raises("get_concept", a, kw, "AssertionError")
       ELSE PassedAsKeywords("get_concept", a, kw,
                             ConceptEndpoint(client.version, a))
  /\ UNCHANGED <<env, default_key, client, parseVars>>

\* api.py:137-168
get_source_concept ==
  /\ CanCall
  /\ \E identifier \in Identifiers,
        return_type \in {"Concept", "Child", "Atom", "bogus"}, kw \in Kwargs :
       LET a == [identifier |-> identifier, return_type |-> return_type] IN
       IF return_type \notin SourceConceptReturnTypes
       THEN raises("get_source_concept", a, kw, "AssertionError")
       ELSE PassedAsKeywords("get_source_concept", a, kw,
                             SourceConceptEndpoint(client.version, a))
  /\ UNCHANGED <<env, default_key, client, parseVars>>

\* api.py:170-179
get_source_description ==
  /\ CanCall
  /\ \E identifier \in Identifiers, kw \in Kwargs :
       PassedAsKeywords("get_source_description", [identifier |-> identifier],
                        kw, <<"content", client.version, "source", "MSH",
                              identifier>>)
  /\ UNCHANGED <<env, default_key, client, parseVars>>

\* api.py:181-190
get_source_code ==
  /\ CanCall
  /\ \E identifier \in Identifiers, kw \in Kwargs :
       PassedAsKeywords("get_source_code", [identifier |-> identifier],
                        kw, <<"content", client.version, "source", "LNC",
                              identifier>>)
  /\ UNCHANGED <<env, default_key, client, parseVars>>

\* api.py:192-201
get_semantic_type ==
  /\ CanCall
  /\ \E kw \in Kwargs :
       PassedAsKeywords("get_semantic_type", [tui |-> "T1"], kw,
                        <<"semantic-network", client.version, "TUI", "T1">>)
  /\ UNCHANGED <<env, default_key, client, parseVars>>

\* api.py:203-226
get_crosswalk ==
  /\ CanCall
  /\ \E identifier \in Identifiers, target_source \in {"", "MSH"},
        kw \in Kwargs :
       LET a == [source |-> "LNC", identifier |-> identifier,
                 target_source |-> target_source]
           params == IF target_source # ""
                     THEN Update(kw, [k \in {"targetSource"} |-> PS(target_source)])
                     ELSE kw
       IN PassedAsDict("get_crosswalk", a, kw,
                       <<"crosswalk", client.version, "source", a.source,
                         quote(identifier)>>, params)
  /\ UNCHANGED <<env, default_key, client, parseVars>>

\* the module is loaded with UMLS_API_KEY set or not; no client exists yet
Init ==
  /\ env \in ApiKeys
  /\ default_key = env
  /\ client = [built |-> FALSE, key |-> "", version |-> ""]
  /\ gets = 0
  /\ parses = 0
  /\ last = Failed(0, "none", <<>>, NoParams, "")
  /\ original = NoneV
  /\ results = NoneV
  /\ pc = "idle"
  /\ ret = NoCall

Next ==
  \/ SetEnv
  \/ UMLS
  \/ search
  \/ get_concept
  \/ get_source_concept
  \/ get_source_description
  \/ get_source_code
  \/ get_semantic_type
  \/ get_crosswalk

Spec == Init /\ [][Next]_vars

-----------------------------------------------------------------------------
(* Properties of the normaliser, checked under SpecParse *)

\* the sixteen spellings of "none"
NoneSpellings ==
  {<<a, b, c, d>> : a \in {"n", "N"}, b \in {"o", "O"},
                    c \in {"n", "N"}, d \in {"e", "E"}}

SpelledNone(v) == v.t = "str" /\ v.s \in NoneSpellings

\* the value the normaliser leaves for a primitive value
Absent(v) == IF SpelledNone(v) THEN NoneV ELSE v

HitKeys == {"ui", "rootSource", "uri", "name"}

IsPrimitive(v) == v.t \in {"str", "int", "none"}

\* a mapping with discriminator "searchResults" whose "results" is a list of
\* raw entries that carry ui, rootSource, uri and name as strings, its other
\* keys holding primitive values
IsSearchPayload(v) ==
  /\ v.t = "dict"
  /\ \A i \in 1..Len(v.d) : v.d[i].k # "results" => IsPrimitive(v.d[i].v)
  /\ HasKey(v.d, "classType") /\ Get(v.d, "classType") = S("searchResults")
  /\ HasKey(v.d, "results") /\ Get(v.d, "results").t = "list"
  /\ \A i \in 1..Len(Get(v.d, "results").l) :
       LET e == Get(v.d, "results").l[i] IN
         /\ e.t = "dict"
         /\ Keys(e.d) = HitKeys
         /\ \A j \in 1..Len(e.d) : e.d[j].v.t = "str"

RawHits == Get(original.d, "results").l

\* N SearchResult records, the i-th built from the i-th raw entry, each
\* field being F(the raw entry's value)
SearchRecordsAre(F(_)) ==
  /\ ret.ok
  /\ ret.val.t = "list"
  /\ Len(ret.val.l) = Len(RawHits)
  /\ \A i \in 1..Len(RawHits) :
       /\ ret.val.l[i].t = "rec"
       /\ ret.val.l[i].cls = "SearchResult"
       /\ Keys(ret.val.l[i].f) = HitKeys
       /\ \A k \in HitKeys :
            Get(ret.val.l[i].f, k) = F(Get(RawHits[i].d, k))

Verbatim(v) == v

\* C1 as claimed: a searchResults mapping with N raw entries yields exactly
\* N SearchResult records in input order whose ui, rootSource, uri and name
\* are the raw entry's values verbatim, whatever string they are.
C1_SearchResultsVerbatim ==
  (pc = "done" /\ IsSearchPayload(original)) => SearchRecordsAre(Verbatim)

\* C1 as amended: a searchResults mapping with N raw entries yields exactly
\* N SearchResult records in input order whose ui, rootSource, uri and name
\* are the raw entry's strings, except that a string equal to "none" in any
\* case arrives as None.
C1_SearchResultsNormalised ==
  (pc = "done" /\ IsSearchPayload(original)) => SearchRecordsAre(Absent)

\* two hits, the first with a "NONE" field and the second without, converted
C1_Witness ==
  /\ pc = "done" /\ IsSearchPayload(original) /\ ret.ok
  /\ Len(RawHits) = 2
  /\ Get(RawHits[1].d, "ui") = S("NONE")
  /\ Get(RawHits[2].d, "ui") = S("RO")
  /\ Get(ret.val.l[1].f, "ui") = NoneV

RECURSIVE LeavesTyped(_), LeafTyped(_)
\* every field of a returned record and every value of a returned mapping
\* is typed; a returned sequence is checked element by element
LeavesTyped(r) ==
  CASE r.t = "list" -> \A i \in 1..Len(r.l) : LeavesTyped(r.l[i])
  [] r.t = "rec" -> \A i \in 1..Len(r.f) : LeafTyped(r.f[i].v)
  [] r.t = "dict" -> \A i \in 1..Len(r.d) : LeafTyped(r.d[i].v)
  [] OTHER -> TRUE
\* a primitive, None, a record, or a sequence of records
LeafTyped(x) ==
  CASE x.t \in {"str", "int", "none"} -> TRUE
  [] x.t = "rec" -> LeavesTyped(x)
  [] x.t = "list" ->
       \A i \in 1..Len(x.l) : x.l[i].t = "rec" /\ LeavesTyped(x.l[i])
  [] OTHER -> FALSE

RECURSIVE LeavesNormalised(_), LeafNormalised(_)
LeavesNormalised(r) ==
  CASE r.t = "list" -> \A i \in 1..Len(r.l) : LeavesNormalised(r.l[i])
  [] r.t = "rec" -> \A i \in 1..Len(r.f) : LeafNormalised(r.f[i].v)
  [] r.t = "dict" ->
       /\ ~HasKey(r.d, "classType")
       /\ \A i \in 1..Len(r.d) : LeafNormalised(r.d[i].v)
  [] OTHER -> TRUE
LeafNormalised(x) ==
  CASE x.t = "str" -> ~SpelledNone(x)
  [] x.t \in {"int", "none"} -> TRUE
  [] x.t = "rec" -> LeavesNormalised(x)
  [] x.t = "list" -> LeavesNormalised(x)
  [] x.t = "dict" ->
       ~(HasKey(x.d, "classType")
         /\ Get(x.d, "classType") = S("SemanticGroup"))

C4_ArgumentUnchanged == pc = "done" => results = original

\* the names of the result record kinds, as a discriminator spells them
\* (with "SemanticGroup" for "SemanticTypeGroup")
NamesRecordKind(ct) ==
  /\ ct.t = "str"
  /\ \E c \in RecordClasses :
       replace(ct.s, Chars("SemanticGroup"), Chars("SemanticTypeGroup"))
         = Chars(c)

UnknownDiscriminator(v) ==
  /\ v.t = "dict"
  /\ HasKey(v.d, "classType")
  /\ Get(v.d, "classType") # S("searchResults")
  /\ ~NamesRecordKind(Get(v.d, "classType"))

\* C5: a mapping whose classType is present, is not "searchResults" and
\* names no result record kind makes the normaliser fail: it returns no
\* record, no mapping, no other value.
C5_UnknownDiscriminatorFails ==
  (pc = "done" /\ UnknownDiscriminator(original)) => ~ret.ok

HasNoneValue(v) ==
  v.t = "dict" /\ \E i \in 1..Len(v.d) : SpelledNone(v.d[i].v)

\* the items of the mapping or record the call returned
ResultItems == IF ret.val.t = "rec" THEN ret.val.f ELSE ret.val.d

\* the call returned a mapping, or a record built from the mapping
ReturnedItems == pc = "done" /\ ret.ok /\ ret.val.t \in {"dict", "rec"}

\* the keys of the payload the result carries: all of them, but for the
\* discriminator a record is built from
CarriedItems ==
  IF ret.val.t = "rec" THEN Without(original.d, "classType") ELSE original.d

\* the normaliser recurses into these values
IsStructure(v) ==
  \/ v.t = "list"
  \/ v.t = "dict" /\ HasKey(v.d, "classType")
       /\ Get(v.d, "classType") = S("SemanticGroup")

\* C6 as claimed: a mapping with a value spelled "none" in any case has
\* that value replaced by None and every other key left with its value.
C6_OnlyNoneReplaced ==
  (ReturnedItems /\ HasNoneValue(original)) =>
    \A i \in 1..Len(CarriedItems) :
       /\ HasKey(ResultItems, CarriedItems[i].k)
       /\ Get(ResultItems, CarriedItems[i].k) = Absent(CarriedItems[i].v)

\* C6 as amended: when the call returns the mapping or a record built from
\* it, a value spelled "none" in any case has been replaced by None and
\* every other key is left with its value, except the keys whose value is a
\* list or a SemanticGroup mapping: those carry the normalised value instead.
C6_NoneReplacedOthersKept ==
  (ReturnedItems /\ HasNoneValue(original)) =>
    \A i \in 1..Len(CarriedItems) :
       /\ HasKey(ResultItems, CarriedItems[i].k)
       /\ ~IsStructure(CarriedItems[i].v) =>
            Get(ResultItems, CarriedItems[i].k) = Absent(CarriedItems[i].v)

\* a returned mapping whose "nOnE" became None beside a string left alone
C6_Witness ==
  /\ ReturnedItems /\ ret.val.t = "dict"
  /\ HasKey(original.d, "a") /\ Get(original.d, "a") = S("nOnE")
  /\ HasKey(original.d, "b") /\ Get(original.d, "b") = S("NONE2")
  /\ Get(ret.val.d, "a") = NoneV
  /\ Get(ret.val.d, "b") = S("NONE2")

RelationKeys == {"relation", "type", "flag", "other"}

IsRelationPayload(v) ==
  v.t = "dict" /\ ~HasKey(v.d, "classType") /\ HasKey(v.d, "relation")

\* the Relation record with F(each of the four values) and no inverseRelation
RelationRecordIs(F(_)) ==
  /\ ret.ok
  /\ ret.val.t = "rec" /\ ret.val.cls = "Relation"
  /\ \A k \in RelationKeys : Get(ret.val.f, k) = F(Get(original.d, k))
  /\ Get(ret.val.f, "inverseRelation") = NoneV

\* C10 as claimed: a mapping without classType and with "relation" is
\* classified as a Relation before "relation1" or pass-through is
\* considered; with exactly the keys relation, type, flag and other it
\* yields a Relation record carrying those four values and no
\* inverseRelation.
C10_RelationVerbatim ==
  (pc = "done" /\ IsRelationPayload(original)) =>
    /\ ret.ok => (ret.val.t = "rec" /\ ret.val.cls = "Relation")
    /\ Keys(original.d) = RelationKeys => RelationRecordIs(Verbatim)

\* C10 as amended: the same, the record carrying the four (primitive)
\* values with a string equal to "none" in any case replaced by None.
C10_RelationNormalised ==
  (pc = "done" /\ IsRelationPayload(original)) =>
    /\ ret.ok => (ret.val.t = "rec" /\ ret.val.cls = "Relation")
    /\ Keys(original.d) = RelationKeys => RelationRecordIs(Absent)

\* {"relation": "RO", "type": "RO", "flag": "NONE", "other": "RO"} became
\* a Relation whose flag and inverseRelation are None
C10_Witness ==
  /\ pc = "done" /\ IsRelationPayload(original) /\ ret.ok
  /\ Keys(original.d) = RelationKeys
  /\ Get(original.d, "flag") = S("NONE")
  /\ Get(original.d, "type") = S("RO")
  /\ Get(ret.val.f, "flag") = NoneV
  /\ Get(ret.val.f, "type") = S("RO")
  /\ Get(ret.val.f, "inverseRelation") = NoneV

-----------------------------------------------------------------------------
(* Properties of the facade, checked under Spec *)

Operations == {"search", "get_concept", "get_source_concept",
               "get_source_description", "get_source_code",
               "get_semantic_type", "get_crosswalk"}

\* the step is a call of one of the seven operations
Called == last'.n = last.n + 1 /\ last'.op \in Operations

\* the enumerated arguments of search are within their allow-lists
EnumsAllowed(a) ==
  /\ a.input_type \in InputTypes
  /\ a.search_type \in SearchTypes
  /\ a.return_id_type \in ReturnIdTypes

\* the arguments of the call pass the operation's assertions
ArgsValid(c) ==
  CASE c.op = "search" ->
         EnumsAllowed(c.args) /\ c.args.page_size > 0 /\ c.args.page_number > 0
  [] c.op = "get_concept" -> c.args.return_type \in ConceptReturnTypes
  [] c.op = "get_source_concept" ->
         c.args.return_type \in SourceConceptReturnTypes
  [] OTHER -> TRUE

\* the names of the parameters the operation sets itself
RequiredKeys(c) ==
  {"apiKey"}
  \cup (IF c.op = "search" THEN DOMAIN SearchParams(c.args) ELSE {})
  \cup (IF c.op = "get_crosswalk" THEN {"targetSource"} ELSE {})

\* C3: each of the seven operations, called with valid arguments and extra
\* keyword query parameters, issues its GET with a parameter map that holds
\* every extra parameter (beside the required ones, which win on a clash).
C3_ExtrasReachRequest ==
  (last.op \in Operations /\ ArgsValid(last) /\ "params" \notin DOMAIN last.kwargs)
    => /\ last.req.sent
       /\ \A k \in DOMAIN last.kwargs :
            /\ k \in DOMAIN last.req.params
            /\ k \notin RequiredKeys(last) => last.req.params[k] = last.kwargs[k]

\* C7: a call of search whose input_type, search_type or return_id_type is
\* outside its allow-list fails on the assertion, and no HTTP request is
\* issued (and the normaliser is not run) during the call.
C7_InvalidSearchSendsNothing ==
  [][(Called /\ last'.op = "search" /\ ~EnumsAllowed(last'.args))
       => /\ last'.err = "AssertionError"
          /\ ~last'.req.sent
          /\ gets' = gets
          /\ parses' = parses]_vars

\* search(..., search_type="invalidOption") with everything else valid has
\* failed and no request has been issued so far
C7_Witness ==
  /\ last.op = "search"
  /\ last.args.search_type = "invalidOption"
  /\ last.args.input_type = "atom"
  /\ last.args.return_id_type = "concept"
  /\ last.args.page_size = 32
  /\ last.err = "AssertionError"
  /\ gets = 0

\* C8: constructing a client succeeds exactly when a non-empty key is
\* supplied or, with none supplied, UMLS_API_KEY holds a non-empty value.
C8_ConstructionNeedsKey ==
  last.op = "UMLS" =>
    (last.err = "" <=>
       \/ last.args.given /\ last.args.key # ""
       \/ ~last.args.given /\ last.args.env # "")

\* C9: an operation that passes its validation performs exactly one GET;
\* on a non-success status the error is raised and the normaliser is not
\* run; on success the normaliser runs exactly once, on the "result" of the
\* body of that response.
C9_OneGetThenNormalise ==
  [][(Called /\ ArgsValid(last'))
       => /\ gets' = gets + 1
          /\ last'.req.sent
          /\ last'.req.status # 200 =>
               (parses' = parses /\ last'.err = "HTTPError")
          /\ last'.req.status = 200 =>
               (parses' = parses + 1 /\ last'.req.parsed \in Bodies)]_vars

====
